---- MODULE Spec2Model ----
(***************************************************************************)
(* A model of BounceRL's Noita environment (bounce_rl/environments/noita/  *)
(* noita_env.py): the session controller NoitaEnv (construction, reset     *)
(* with its retry loop and watchdog, step with its tick polling loop,      *)
(* close), the process-wide pre_init of the virtual input router, the      *)
(* time-control artifacts, and the episode policy chain                    *)
(* (TerminateOnOverworld, TerminateOnSparseReward).                        *)
(*                                                                         *)
(* Fixed-point conventions.  Speed multipliers are held in hundredths      *)
(* (1 -> 100, run_rate 4 -> 400, pause_rate 0.02 -> 2).  The world         *)
(* coordinate y is held in units of 1/YDen, so that int(info["y"]) is a    *)
(* real truncation.  Continuous action components are the integers         *)
(* -1, 0, 1, for which the float arithmetic of step() is exact.            *)
(***************************************************************************)
EXTENDS Integers, Sequences, FiniteSets, TLC

(***************************************************************************)
(* Bounds of the model.                                                    *)
(***************************************************************************)
\* pre_init(num_envs) is called with num_envs in 1..MaxEnvs.
MaxEnvs == 2
\* step() is called while env_step < MaxEnvStep.
MaxEnvStep == 3
\* reset() is called while ep_num < MaxEpNum.
MaxEpNum == 3
\* Seconds one round of the wait for the harness takes (at least the 1 s it
\* sleeps).
TickSecs == 15
\* Denominator of the fixed-point world coordinate y.
YDen == 2
\* The configured history_len interpolator of TerminateOnSparseReward:
\* LinearInterpolator(x_0 = 0, x_1 = HistX1, y_0 = HistLen0,
\* y_1 = HistLen0 + 1, extrapolate = False), and max_size = HistLen0 + 1.
HistX1 == 3
HistLen0 == 2

(***************************************************************************)
(* Program constants.                                                      *)
(***************************************************************************)
ResetAttempts == 3
WatchdogSecs == 45
Retries == 20
RunRate == 400
PauseRate == 2
ScaleMouseCoords == 3
XRes == 640
YRes == 360
TerminationPenalty == 10
OverworldY == -80

None == "None"
MouseButtons == {"LEFT", "RIGHT"}

\* NoitaEnv._input_space: one tuple per discrete dimension, indexed from 0
\* in the source and from 1 here.
_input_space ==
    << <<None, "W", "S">>,
       <<None, "A", "D">>,
       <<None, "F">>,
       <<None, "E">>,
       <<None, "1", "3", "4">>,
       <<None, "5", "6", "7", "8">>,
       <<None, "LEFT", "RIGHT">> >>

Instances == 0 .. (MaxEnvs - 1)

\* lib_mpx_input.cursor_name(i): the name of instance i's virtual pointer,
\* a different name for every instance id.
cursor_name(i) == <<"cursor", i>>

CursorNames == {cursor_name(i) : i \in Instances}

\* The rewards the reward function returns and the infos the info source
\* reports, as far as the model draws them.
Rewards == {-1, 0, 1}
Ticks == {0, 1}
Ys == {-81 * YDen, -81 * YDen + 1, OverworldY * YDen, -79 * YDen}

VARIABLES
    \* process-wide state
    singleton_init,   \* NoitaEnv.singleton_init
    cursors,          \* pointer name -> number of virtual pointers of that name
    finalizers,       \* the registered atexit callbacks: their num_envs, in order
    exited,           \* the process has exited and its finalizers have run
    time_control,     \* instance id -> the bytes of its artifact; <<>> while
                      \* it does not exist or is empty
    writing,          \* instance id -> the SetSpeedup call under way for it:
                      \* <<>>, or <<multiplier, bytes it found>>
    observed,         \* instance id -> what the controlled process read at
                      \* its last poll: <<>> before any, else <<bytes>>
    \* the session
    pc,               \* the position of the session's control thread
    instance,
    skip_startup,
    ep_step,
    ep_num,
    env_step,
    state,            \* NoitaState, "unset" before the first attempt
    harness,          \* hasattr(self, "harness")
    handles,          \* process handles launched and not cleaned up
    tries,            \* the i of _reset_env's loop
    elapsed,          \* seconds since init_watch_dog
    caller,           \* who called _reset_env: "__init__" or "reset"
    wait_ticks,       \* harness.tick() calls of the wait under way
    attempts,         \* calls of _try_reset_env that have returned, since
                      \* the construction began
    reset_ep_num,     \* ep_num as the reset under way found it
    prev_reset,       \* the session as the last operation, a reset() that
                      \* returned, left it; NoSession after any other
    \* the instance's input channel
    held_keys,
    held_buttons,
    mouse_pos,
    \* step()'s locals (a local holds its initial value outside its call)
    orig_action,
    init_tick,
    polls,            \* the i of step()'s loop
    harness_ticks,    \* harness.tick() calls of the step() under way
    info,             \* the info of the last on_tick() of this step
    \* collaborators
    tick,             \* the info source's tick counter
    reward_history,   \* TerminateOnSparseReward.reward_history: pushed values
    hist_size,        \* ... and its current window size
    ret               \* what the last operation returned or raised; the two
                      \* RuntimeErrors go by the names "ResetExhausted"
                      \* and "AlreadyInitialized"

procVars == <<singleton_init, cursors, finalizers, exited>>
channelVars == <<writing, observed>>
countVars == <<ep_step, ep_num, env_step>>
inputVars == <<held_keys, held_buttons, mouse_pos>>
stepVars == <<orig_action, init_tick, polls, info, harness_ticks>>
policyVars == <<reward_history, hist_size>>
resetVars == <<tries, elapsed, caller, skip_startup, wait_ticks, attempts,
               reset_ep_num>>
vars == <<singleton_init, cursors, finalizers, exited, time_control,
          writing, observed,
          pc, instance, skip_startup, ep_step, ep_num,
          env_step, state, harness, handles, tries, elapsed, caller,
          wait_ticks, attempts, reset_ep_num, prev_reset,
          held_keys, held_buttons, mouse_pos, orig_action, init_tick, polls,
          harness_ticks, info, tick, reward_history, hist_size, ret>>

NoInfo == [tick |-> 0, is_alive |-> TRUE, y |-> 0]
NoRet == [kind |-> "none", reward |-> 0, terminated |-> FALSE,
          truncated |-> FALSE, done |-> FALSE, info |-> NoInfo]
Returned(k) == [NoRet EXCEPT !.kind = k]

Session ==
    [state |-> state, ep_num |-> ep_num, ep_step |-> ep_step,
     env_step |-> env_step, reward_history |-> reward_history,
     hist_size |-> hist_size, held_keys |-> held_keys,
     held_buttons |-> held_buttons, mouse_pos |-> mouse_pos,
     harness |-> harness, handles |-> handles]

\* What a reset() is said to leave the same: the session state, the
\* counters, the policy state, the held input and the process handle.
NoSession ==
    [state |-> "none", ep_num |-> 0, ep_step |-> 0, env_step |-> 0,
     reward_history |-> <<>>, hist_size |-> 0, held_keys |-> {},
     held_buttons |-> {}, mouse_pos |-> <<0, 0>>, harness |-> FALSE,
     handles |-> 0]

(***************************************************************************)
(* Time-Control Channel.                                                   *)
(***************************************************************************)
RECURSIVE Pow2(_)
Pow2(k) == IF k = 0 THEN 1 ELSE 2 * Pow2(k - 1)

\* The binary exponent e of a positive multiplier of n hundredths:
\* 2^e <= n / 100 < 2^(e + 1).
RECURSIVE FloatExponent(_)
FloatExponent(n) ==
    IF n >= 200 THEN FloatExponent(n \div 2) + 1
    ELSE IF n < 100 THEN FloatExponent(n * 2) - 1
    ELSE 0

\* The 24-bit significand of n / 100, rounded to nearest, ties to even.
FloatSignificand(n) ==
    LET x == n * Pow2(23 - FloatExponent(n))
        q == x \div 100
        r == x % 100
    IN  IF r > 50 \/ (r = 50 /\ q % 2 = 1) THEN q + 1 ELSE q

\* The 32 bits of the single-precision float nearest to n / 100 (n > 0).
FloatBits(n) ==
    (127 + FloatExponent(n)) * Pow2(23) + (FloatSignificand(n) - Pow2(23))

\* A faulty variant: the bytes are laid out most significant first.
pack_f_BigEndian(n) ==
    <<FloatBits(n) \div Pow2(24), (FloatBits(n) \div Pow2(16)) % 256,
      (FloatBits(n) \div 256) % 256, FloatBits(n) % 256>>

\* struct.pack("f", speedup): the four bytes of the float in native
\* (little-endian) order.
pack_f(n) ==
    <<FloatBits(n) % 256, (FloatBits(n) \div 256) % 256,
      (FloatBits(n) \div Pow2(16)) % 256, FloatBits(n) \div Pow2(24)>>

\* open(path, "wb"): the artifact is created, or truncated to no bytes.
time_control_open(artifact) == <<>>

\* The multipliers the controller writes: 1, run_rate and pause_rate.
Speedups == {100, RunRate, PauseRate}

\* struct.pack("f", speedup) of each of them.
Packed == [m \in Speedups |-> pack_f(m)]

\* f.write(struct.pack("f", speedup)) and the close that flushes it.
time_control_write(artifact, speedup) == artifact \o Packed[speedup]

\* time_writer.SetSpeedup(speedup, instance) from open to close, on the
\* artifact kept for the instance.
SetSpeedup(tc, speedup, inst) ==
    [tc EXCEPT ![inst] = time_control_write(time_control_open(@), speedup)]

(***************************************************************************)
(* Episode Policy Chain.  A StepVal is a record                            *)
(* [reward, terminated, truncated, info, ep_step].                         *)
(***************************************************************************)
\* Python's int() on a number: truncation toward zero.
IntTrunc(n, den) == IF n >= 0 THEN n \div den ELSE -((-n) \div den)

\* A faulty variant: y is compared without int().
is_overworld_NoTrunc(inf) == inf.y < OverworldY * YDen

\* is_overworld: int(info["y"]) < -80
is_overworld(inf) == IntTrunc(inf.y, YDen) < OverworldY

\* A faulty variant: terminated is assigned the outcome of the test, which
\* revives a player the overworld test does not catch.
TerminateOnOverworld_Assigns(step_val) ==
    [step_val EXCEPT !.terminated = is_overworld(step_val.info)]

\* TerminateOnOverworld.__call__
TerminateOnOverworld(step_val) ==
    IF is_overworld(step_val.info)
    THEN [step_val EXCEPT !.terminated = TRUE]
    ELSE step_val

\* LinearInterpolator.get_value of the configured history_len, then int().
HistLen1 == HistLen0 + 1
MaxSize == HistLen1
history_len(x) ==
    IF x >= HistX1 THEN HistLen1
    ELSE IF x <= 0 THEN HistLen0
    ELSE HistLen0 + ((x * (HistLen1 - HistLen0)) \div HistX1)

\* GrowingCircularFIFOArray.push(val, size): append, keep at most max_size
\* values, and set the window to the most recent `size` of them.
FifoPush(h, val, size) ==
    LET all == Append(h.values, val)
        kept == IF Len(all) > MaxSize
                THEN SubSeq(all, Len(all) - MaxSize + 1, Len(all))
                ELSE all
        n == IF size > Len(kept) THEN Len(kept) ELSE size
    IN  [values |-> kept, size |-> n]

\* GrowingCircularFIFOArray.get_array(): the current window.
FifoArray(h) == SubSeq(h.values, Len(h.values) - h.size + 1, Len(h.values))

\* A faulty variant: only positive rewards count.
CountNonZero_Positive(s) == Cardinality({k \in 1 .. Len(s) : s[k] > 0})

\* np.sum(reward_history != 0)
CountNonZero(s) == Cardinality({k \in 1 .. Len(s) : s[k] # 0})

\* A faulty variant: reset() leaves the reward history as it is.
SparseReset_Keeps == [values |-> reward_history, size |-> hist_size]

\* TerminateOnSparseReward.reset
SparseReset == FifoPush([values |-> <<>>, size |-> 0], 1, 1)

\* A faulty variant: the policy acts once per episode only (it stays quiet
\* when the window it found was already empty of rewards).
TerminateOnSparseReward_Once(h, step_val) ==
    LET h2 == FifoPush(h, step_val.reward, history_len(step_val.ep_step))
    IN  IF CountNonZero(FifoArray(h2)) = 0 /\ CountNonZero(FifoArray(h)) # 0
        THEN [hist |-> h2,
              step |-> [step_val EXCEPT
                          !.reward = step_val.reward - TerminationPenalty,
                          !.terminated = TRUE]]
        ELSE [hist |-> h2, step |-> step_val]

\* TerminateOnSparseReward.__call__: the new history and the StepVal.
TerminateOnSparseReward(h, step_val) ==
    LET h2 == FifoPush(h, step_val.reward, history_len(step_val.ep_step))
    IN  IF CountNonZero(FifoArray(h2)) = 0
        THEN [hist |-> h2,
              step |-> [step_val EXCEPT
                          !.reward = step_val.reward - TerminationPenalty,
                          !.terminated = TRUE]]
        ELSE [hist |-> h2, step |-> step_val]

\* The configured step_wrappers (the default of NoitaEnv.__init__).
step_wrappers == <<"TerminateOnOverworld", "TerminateOnSparseReward">>

\* A faulty variant: the policy leaves its argument alone and returns a
\* new StepVal.
PolicyCall_Copy(heap, ref, new_val) ==
    [heap |-> Append(heap, new_val), ref |-> Len(heap) + 1]

\* How both policies treat the StepVal they are called with: they assign to
\* its fields (step.terminated = True, step.reward -= ...) and return it
\* (return step).  heap holds the StepVal objects, ref is the argument; the
\* result is the heap after the call and the reference returned.
PolicyCall(heap, ref, new_val) ==
    [heap |-> [heap EXCEPT ![ref] = new_val], ref |-> ref]

\* One wrapper called on the StepVal at hs.ref, with the reward history.
ApplyWrapper(w, hs) ==
    IF w = "TerminateOnOverworld"
    THEN LET c == PolicyCall(hs.heap, hs.ref,
                             TerminateOnOverworld(hs.heap[hs.ref]))
         IN  [hist |-> hs.hist, heap |-> c.heap, ref |-> c.ref]
    ELSE LET o == TerminateOnSparseReward(hs.hist, hs.heap[hs.ref])
             c == PolicyCall(hs.heap, hs.ref, o.step)
         IN  [hist |-> o.hist, heap |-> c.heap, ref |-> c.ref]

\* for wrapper in self.step_wrappers: step_val = wrapper(step_val)
RECURSIVE ApplyWrappers(_, _)
ApplyWrappers(ws, hs) ==
    IF ws = <<>> THEN hs
    ELSE ApplyWrappers(Tail(ws), ApplyWrapper(Head(ws), hs))

History == [values |-> reward_history, size |-> hist_size]

(***************************************************************************)
(* The actions a caller's step() can take, as the model draws them: the    *)
(* nested form (discrete, continuous) and the flattened form of length 9.  *)
(***************************************************************************)
Actions ==
    { << <<0, 0, 0, 0, 0, 0, 0>>, <<-1, -1>> >>,
      << <<1, 2, 1, 0, 3, 4, 2>>, <<1, 1>> >>,
      <<2, 1, 0, 1, 1, 2, 1, 0, 1>> }

\* The instance ids sessions are constructed with (the default).
SessionInstances == {0}

Init ==
    /\ singleton_init = FALSE
    /\ cursors = [nm \in CursorNames |-> 0]
    /\ finalizers = <<>>
    /\ exited = FALSE
    /\ time_control = [i \in Instances |-> <<>>]
    /\ writing = [i \in Instances |-> <<>>]
    /\ observed = [i \in Instances |-> <<>>]
    /\ pc = "new"
    /\ instance = 0
    /\ skip_startup = FALSE
    /\ ep_step = 0
    /\ ep_num = 0
    /\ env_step = 0
    /\ state = "unset"
    /\ harness = FALSE
    /\ handles = 0
    /\ tries = 0
    /\ elapsed = 0
    /\ caller = "none"
    /\ wait_ticks = 0
    /\ attempts = 0
    /\ reset_ep_num = 0
    /\ prev_reset = NoSession
    /\ held_keys = {}
    /\ held_buttons = {}
    /\ mouse_pos = <<0, 0>>
    /\ orig_action = <<>>
    /\ init_tick = 0
    /\ polls = 0
    /\ harness_ticks = 0
    /\ info = NoInfo
    /\ tick = 0
    /\ reward_history = <<>>
    /\ hist_size = 0
    /\ ret = NoRet

(***************************************************************************)
(* Virtual Input Router: NoitaEnv.pre_init and its atexit finalizer.       *)
(***************************************************************************)
\* A faulty variant: the singleton flag is never consulted.
AlreadyInitialized_Never == FALSE

\* if cls.singleton_init: raise RuntimeError(...)
AlreadyInitialized == singleton_init

\* The calls of a loop `for i in range(num_envs)` that name the pointer nm.
CallsNaming(nm, num_envs) ==
    Cardinality({i \in 0 .. (num_envs - 1) : cursor_name(i) = nm})

\* A faulty variant: the loop stops one instance short.
MakeCursors_OneShort(cs, num_envs) ==
    [nm \in DOMAIN cs |-> cs[nm] + CallsNaming(nm, num_envs - 1)]

\* for i in range(num_envs): lib_mpx.make_cursor(display, cursor_name(i))
MakeCursors(cs, num_envs) ==
    [nm \in DOMAIN cs |-> cs[nm] + CallsNaming(nm, num_envs)]

\* cleanup_cursors: for i in range(num_envs): lib_mpx.delete_cursor(...);
\* deleting a pointer that does not exist deletes nothing.
DeleteCursors(cs, num_envs) ==
    [nm \in DOMAIN cs |->
        IF cs[nm] > CallsNaming(nm, num_envs)
        THEN cs[nm] - CallsNaming(nm, num_envs) ELSE 0]

\* for i in range(num_envs): time_writer.SetSpeedup(1, str(i))
RECURSIVE SetSpeedupAll(_, _)
SetSpeedupAll(tc, num_envs) ==
    IF num_envs = 0 THEN tc
    ELSE SetSpeedupAll(SetSpeedup(tc, 100, num_envs - 1), num_envs - 1)

pre_init(num_envs) ==
    /\ ~exited
    /\ pc \in {"new", "idle"}
    /\ IF AlreadyInitialized
       THEN /\ ret' = Returned("AlreadyInitialized")
            /\ UNCHANGED <<singleton_init, cursors, finalizers, time_control>>
       ELSE /\ time_control' = SetSpeedupAll(time_control, num_envs)
            /\ cursors' = MakeCursors(cursors, num_envs)
            /\ finalizers' = Append(finalizers, num_envs)
            /\ singleton_init' = TRUE
            /\ ret' = Returned("pre_init_ok")
    /\ UNCHANGED <<channelVars, prev_reset, exited, pc, instance, state, harness, handles, tick,
                   countVars, inputVars, stepVars, policyVars, resetVars>>

\* The registered finalizers run at process exit, last registered first.
RECURSIVE RunFinalizers(_, _)
RunFinalizers(fs, cs) ==
    IF fs = <<>> THEN cs
    ELSE RunFinalizers(SubSeq(fs, 1, Len(fs) - 1),
                       DeleteCursors(cs, fs[Len(fs)]))

process_exit ==
    /\ ~exited
    /\ pc \in {"new", "idle", "failed"}
    /\ exited' = TRUE
    /\ cursors' = RunFinalizers(finalizers, cursors)
    /\ UNCHANGED <<channelVars, prev_reset, singleton_init, finalizers, time_control, pc, instance, state, harness, handles, tick, ret,
                   countVars, inputVars, stepVars, policyVars, resetVars>>

(***************************************************************************)
(* Session Controller: construction and reset.                             *)
(***************************************************************************)
\* NoitaEnv.__init__ up to its call of _reset_env.  Constructing the default
\* step_wrappers runs TerminateOnSparseReward.__init__, which resets it.
__init__(inst, skip) ==
    /\ ~exited
    /\ pc = "new"
    /\ instance' = inst
    /\ skip_startup' = skip
    /\ ep_step' = 0
    /\ ep_num' = 0
    /\ env_step' = 0
    /\ reward_history' = SparseReset.values
    /\ hist_size' = SparseReset.size
    /\ caller' = "__init__"
    /\ attempts' = 0
    /\ pc' = "_reset_env"
    /\ UNCHANGED <<channelVars, prev_reset, procVars, time_control, state,
                   harness, handles, tries, elapsed, wait_ticks, reset_ep_num,
                   tick, ret, inputVars, stepVars>>

\* NoitaEnv.reset up to its call of _reset_env (skip_startup defaults to
\* False there).
reset ==
    /\ ~exited
    /\ pc = "idle"
    /\ ep_num < MaxEpNum
    /\ caller' = "reset"
    /\ skip_startup' = FALSE
    /\ ret' = NoRet
    /\ pc' = "_reset_env"
    /\ UNCHANGED <<channelVars, prev_reset, procVars, time_control, instance,
                   state, harness, handles, tries, elapsed, wait_ticks,
                   attempts, reset_ep_num, tick, countVars, inputVars,
                   stepVars, policyVars>>

\* A faulty variant: the reset leaves the speed-up as the last step left it.
_reset_env_NoSpeedup ==
    /\ pc = "_reset_env"
    /\ tries' = 0
    /\ reset_ep_num' = ep_num
    /\ pc' = "_try_reset_env"
    /\ UNCHANGED <<channelVars, prev_reset, procVars, time_control, instance,
                   skip_startup, state, harness, handles, elapsed, caller,
                   wait_ticks, attempts, tick, ret, countVars, inputVars,
                   stepVars, policyVars>>

\* _reset_env: the speed-up is set to 1 and the retry loop starts.
_reset_env ==
    /\ pc = "_reset_env"
    /\ time_control' = SetSpeedup(time_control, 100, instance)
    /\ tries' = 0
    /\ reset_ep_num' = ep_num
    /\ pc' = "_try_reset_env"
    /\ UNCHANGED <<channelVars, prev_reset, procVars, instance, skip_startup,
                   state, harness, handles, elapsed, caller, wait_ticks,
                   attempts, tick, ret, countVars, inputVars, stepVars,
                   policyVars>>

\* A faulty variant: the episode counter is left alone.
NextEpNum_Same(n) == n

\* A faulty variant: the episode counter is advanced twice.
NextEpNum_Twice(n) == n + 2

\* self.ep_num += 1
NextEpNum(n) == n + 1

\* A faulty variant: the attempt clears env_step along with ep_step.
_try_reset_env_ClearsEnvStep ==
    /\ pc = "_try_reset_env"
    /\ ep_step' = 0
    /\ env_step' = 0
    /\ ep_num' = NextEpNum(ep_num)
    /\ reward_history' = SparseReset.values
    /\ hist_size' = SparseReset.size
    /\ held_keys' = IF harness THEN {} ELSE held_keys
    /\ pc' = IF harness THEN "cleanup_harness" ELSE "launch_harness"
    /\ UNCHANGED <<channelVars, prev_reset, procVars, time_control, instance,
                   skip_startup, state, harness, handles, tries, elapsed,
                   caller, wait_ticks, attempts, reset_ep_num, held_buttons,
                   mouse_pos, tick, ret, stepVars>>

\* _try_reset_env up to the sleep that follows the release of the keys: the
\* episode counters, the wrappers' reset and, if there is a harness, the
\* release of its keys.
_try_reset_env ==
    /\ pc = "_try_reset_env"
    /\ ep_step' = 0
    /\ ep_num' = NextEpNum(ep_num)
    /\ reward_history' = SparseReset.values
    /\ hist_size' = SparseReset.size
    /\ held_keys' = IF harness THEN {} ELSE held_keys
    /\ pc' = IF harness THEN "cleanup_harness" ELSE "launch_harness"
    /\ UNCHANGED <<channelVars, prev_reset, procVars, time_control, instance,
                   skip_startup, env_step, state, harness, handles, tries,
                   elapsed, caller, wait_ticks, attempts, reset_ep_num,
                   held_buttons, mouse_pos, tick, ret, stepVars>>

\* A faulty variant: the previous harness is left running.
cleanup_Skipped(h) == h

\* Harness.cleanup(): the process handle is torn down.
cleanup(h) == h - 1

\* _try_reset_env, if there is a harness: once the release of the keys has
\* had 0.1 s to register, the previous harness is cleaned up
\* (self.harness still names it) and the attempt sleeps a second.
cleanup_harness ==
    /\ pc = "cleanup_harness"
    /\ handles' = cleanup(handles)
    /\ pc' = "launch_harness"
    /\ UNCHANGED <<channelVars, prev_reset, procVars, time_control, instance,
                   state, harness, tick, ret, countVars, inputVars, stepVars,
                   policyVars, tries, elapsed, caller, skip_startup,
                   wait_ticks, attempts, reset_ep_num>>

\* A faulty variant: the launch leaves the state as it finds it.
LaunchState_Kept(st) == st

\* self.state = NoitaState.UNKNOWN
LaunchState(st) == "UNKNOWN"

\* _try_reset_env from there to the start of the watchdog: the new harness
\* is launched and the state is set.
launch_harness ==
    /\ pc = "launch_harness"
    /\ handles' = handles + 1
    /\ harness' = TRUE
    /\ state' = LaunchState(state)
    /\ elapsed' = 0
    /\ wait_ticks' = 0
    /\ pc' = "_wait_for_harness_init"
    /\ UNCHANGED <<channelVars, prev_reset, procVars, time_control, instance,
                   skip_startup, tries, caller, attempts, reset_ep_num, tick,
                   ret, countVars, inputVars, stepVars, policyVars>>

\* What one round of the wait loop can take: harness.tick() and sleep(1)
\* last TickSecs seconds, or the process is held up beyond the watchdog.
PollSecs == {TickSecs, WatchdogSecs + 1}

\* A faulty variant: the watchdog never expires.
WatchdogExpired_Never(secs) == FALSE

\* (now - init_watch_dog).total_seconds() > 45
WatchdogExpired(secs) == secs > WatchdogSecs

\* One evaluation of `while not self.harness.ready` and, when not ready,
\* one round of the loop.
_wait_for_harness_init(ready, dt) ==
    /\ pc = "_wait_for_harness_init"
    /\ IF ready
       THEN /\ pc' = "_env_init"
            /\ UNCHANGED <<elapsed, wait_ticks>>
       ELSE LET now == IF elapsed + dt > WatchdogSecs
                       THEN WatchdogSecs + 1 ELSE elapsed + dt
            IN  /\ wait_ticks' = wait_ticks + 1
                /\ elapsed' = now
                /\ pc' = IF WatchdogExpired(now) THEN "init_timed_out"
                         ELSE "_wait_for_harness_init"
    /\ UNCHANGED <<channelVars, prev_reset, procVars, time_control, instance,
                   skip_startup, state, harness, handles, tries, caller,
                   attempts, reset_ep_num, tick, ret, countVars, inputVars,
                   stepVars, policyVars>>

\* A faulty variant: the loop runs once more.
ResetExhausted_OffByOne(i) == i + 1 >= ResetAttempts + 1

\* for i in range(3): the loop of _reset_env is over after this failure.
ResetExhausted(i) == i + 1 >= ResetAttempts

\* A faulty variant: the failed attempt leaves its harness in place.
FailedAttempt_KeepsHarness(h) == [handles |-> h, harness |-> TRUE]

\* if not harness_init: self.harness.cleanup(); del self.harness;
\* return False
FailedAttempt(h) == [handles |-> h - 1, harness |-> FALSE]

\* The failure branch of _try_reset_env and the loop control of _reset_env:
\* retry, or raise RuntimeError after the last attempt.
init_timed_out ==
    /\ pc = "init_timed_out"
    /\ handles' = FailedAttempt(handles).handles
    /\ harness' = FailedAttempt(handles).harness
    /\ elapsed' = 0
    /\ wait_ticks' = 0
    /\ IF ResetExhausted(tries)
       THEN /\ ret' = Returned("ResetExhausted")
            /\ pc' = IF caller = "__init__" THEN "failed" ELSE "idle"
            /\ tries' = 0
            /\ caller' = "none"
            /\ skip_startup' = FALSE
            /\ reset_ep_num' = 0
            /\ prev_reset' = NoSession
       ELSE /\ pc' = "_try_reset_env"
            /\ tries' = tries + 1
            /\ UNCHANGED <<ret, caller, skip_startup, reset_ep_num,
                           prev_reset>>
    /\ attempts' = attempts + 1
    /\ UNCHANGED <<channelVars, procVars, time_control, instance, state, tick,
                   countVars, inputVars, stepVars, policyVars>>

\* _run_init_sequence: move_mouse(10, 10), then key_sequence presses and
\* releases each menu key.
_run_init_sequence(pos) == <<10, 10>>

\* A faulty variant: the state is left as the attempt set it.
EnvInitState_Unknown == "UNKNOWN"

\* self.state = NoitaState.RUNNING
EnvInitState == "RUNNING"

\* The success branch: _env_init, the return of _reset_env, and for reset()
\* its get_screen() and on_tick().
_env_init(t) ==
    /\ pc = "_env_init"
    /\ mouse_pos' = IF skip_startup THEN mouse_pos
                    ELSE _run_init_sequence(mouse_pos)
    /\ state' = EnvInitState
    /\ tick' = IF caller = "reset" THEN t ELSE tick
    /\ ret' = Returned("reset_ok")
    /\ pc' = "idle"
    /\ tries' = 0
    /\ elapsed' = 0
    /\ wait_ticks' = 0
    /\ caller' = "none"
    /\ skip_startup' = FALSE
    /\ reset_ep_num' = 0
    /\ attempts' = attempts + 1
    /\ UNCHANGED <<channelVars, procVars, time_control, instance, harness,
                   handles, held_keys, held_buttons, countVars, stepVars,
                   policyVars>>
    /\ prev_reset' = IF caller = "reset" THEN Session' ELSE NoSession

\* NoitaEnv.close
close ==
    /\ ~exited
    /\ pc = "idle"
    /\ IF harness
       THEN /\ handles' = handles - 1
            /\ harness' = FALSE
            /\ ret' = Returned("closed")
       ELSE /\ ret' = Returned("AttributeError")
            /\ UNCHANGED <<handles, harness>>
    /\ prev_reset' = NoSession
    /\ UNCHANGED <<channelVars, procVars, time_control, pc, instance, state,
                   tick, countVars, inputVars, stepVars, policyVars,
                   resetVars>>

(***************************************************************************)
(* Session Controller: step.                                               *)
(***************************************************************************)
\* if len(action) == 9: action = action[0:7], action[7:9]
SplitAction(action) ==
    IF Len(action) = 9
    THEN <<SubSeq(action, 1, 7), SubSeq(action, 8, 9)>>
    ELSE action

\* A faulty variant: the keys of the previous step stay held.
HeldKeys_Accumulate(discrete_action) ==
    held_keys \cup
        ({_input_space[d][discrete_action[d] + 1] : d \in 1 .. 7}
            \ ({None} \cup MouseButtons))

\* The loop over zip(discrete_action, self.input_space): the entries s[i]
\* that are not None and are not (are) a MouseButton.
HeldKeys(discrete_action) ==
    {_input_space[d][discrete_action[d] + 1] : d \in 1 .. 7}
        \ ({None} \cup MouseButtons)

HeldMouseButtons(discrete_action) ==
    {_input_space[d][discrete_action[d] + 1] : d \in 1 .. 7}
        \cap MouseButtons

\* A faulty variant: the scale factor is not applied.
MouseCoord_Unscaled(c, res) == ((c + 1) * res) \div 2

\* c * scale_mouse_coords, then (c + 1) / 2, then times the resolution.
MouseCoord(c, res) == (((c * ScaleMouseCoords) + 1) * res) \div 2

MousePos(continuous_action) ==
    <<MouseCoord(continuous_action[1], XRes),
      MouseCoord(continuous_action[2], YRes)>>

\* A faulty variant: the step is not counted.
NextStep_Same(n) == n

\* self.ep_step += 1; self.env_step += 1
NextStep(n) == n + 1

\* self.harness.tick(), counted.
harness_tick(n) == n + 1

\* step() up to init_info = self.noita_info.current_info().  Without a
\* harness (after close() or an exhausted reset) self.harness raises
\* AttributeError, after the counters were incremented.
step(action) ==
    /\ ~exited
    /\ pc = "idle"
    /\ env_step < MaxEnvStep
    /\ ep_step' = NextStep(ep_step)
    /\ env_step' = NextStep(env_step)
    /\ IF harness
       THEN /\ orig_action' = action
            /\ held_keys' = HeldKeys(SplitAction(action)[1])
            /\ held_buttons' = HeldMouseButtons(SplitAction(action)[1])
            /\ mouse_pos' = MousePos(SplitAction(action)[2])
            /\ harness_ticks' = harness_tick(harness_ticks)
            /\ init_tick' = tick
            /\ polls' = 0
            /\ ret' = NoRet
            /\ pc' = "step_run"
       ELSE /\ ret' = Returned("AttributeError")
            /\ UNCHANGED <<orig_action, inputVars, harness_ticks, init_tick,
                           polls, pc>>
    /\ prev_reset' = NoSession
    /\ UNCHANGED <<channelVars, procVars, time_control, instance, ep_num,
                   state, harness, handles, info, tick, policyVars, resetVars>>

\* One round of the polling loop up to the sleep: the game is let run.
step_run ==
    /\ pc = "step_run"
    /\ time_control' = SetSpeedup(time_control, RunRate, instance)
    /\ pc' = "step_pause"
    /\ UNCHANGED <<channelVars, prev_reset, procVars, instance, state, harness, handles, tick, ret,
                   countVars, inputVars, stepVars, policyVars, resetVars>>

\* info["tick"] != init_info["tick"]
TickAdvanced(inf, init) == inf.tick # init

\* A faulty variant: the give-up test is off by one.
LastRetry_OffByOne(i) == i = Retries

\* if i == retries - 1
LastRetry(i) == i = Retries - 1

\* A faulty variant: the game is left running while the info is polled.
step_pause_Skipped ==
    /\ pc = "step_pause"
    /\ pc' = "step_poll"
    /\ UNCHANGED <<channelVars, prev_reset, procVars, time_control, instance,
                   state, harness, handles, tick, ret, countVars, inputVars,
                   stepVars, policyVars, resetVars>>

\* After the sleep: the game is paused.
step_pause ==
    /\ pc = "step_pause"
    /\ time_control' = SetSpeedup(time_control, PauseRate, instance)
    /\ pc' = "step_poll"
    /\ UNCHANGED <<channelVars, prev_reset, procVars, instance, state, harness,
                   handles, tick, ret, countVars, inputVars, stepVars,
                   policyVars, resetVars>>

\* The rest of the round: the info source is polled, and the loop breaks,
\* gives up (return None) or goes round again.
step_poll(inf) ==
    /\ pc = "step_poll"
    /\ tick' = inf.tick
    /\ IF TickAdvanced(inf, init_tick)
       THEN /\ info' = inf
            /\ pc' = "step_finish"
            /\ polls' = 0
            /\ init_tick' = 0
            /\ UNCHANGED <<ret, orig_action, harness_ticks>>
       ELSE /\ info' = [NoInfo EXCEPT !.tick = inf.tick]
            /\ IF LastRetry(polls)
               THEN /\ ret' = Returned("unavailable")
                    /\ orig_action' = <<>>
                    /\ pc' = "idle"
                    /\ polls' = 0
                    /\ init_tick' = 0
                    /\ harness_ticks' = 0
               ELSE /\ polls' = polls + 1
                    /\ pc' = "step_run"
                    /\ UNCHANGED <<ret, orig_action, init_tick,
                                   harness_ticks>>
    /\ UNCHANGED <<channelVars, prev_reset, procVars, time_control, instance,
                   state, harness, handles, countVars, inputVars, policyVars,
                   resetVars>>

\* A faulty variant: terminated = info["is_alive"].
RawStepVal_NoNegation(reward, inf, eps) ==
    [reward |-> reward, terminated |-> inf.is_alive, truncated |-> FALSE,
     info |-> inf, ep_step |-> eps]

\* terminated = not info["is_alive"]; truncated = False; the StepVal.
RawStepVal(reward, inf, eps) ==
    [reward |-> reward, terminated |-> ~inf.is_alive, truncated |-> FALSE,
     info |-> inf, ep_step |-> eps]

\* The returned tuple (pixels, reward, terminated or truncated, info).
StepReturn(step_val) ==
    [kind |-> "result", reward |-> step_val.reward,
     terminated |-> step_val.terminated, truncated |-> step_val.truncated,
     done |-> step_val.terminated \/ step_val.truncated,
     info |-> step_val.info]

\* step_val = StepVal(...): the one StepVal object step() builds, and the
\* reward history the wrappers start from.
StepValBuilt(reward) ==
    [hist |-> History,
     heap |-> <<RawStepVal(reward, info, ep_step)>>,
     ref |-> 1]

\* step() after the loop: the reward, the step wrappers, the return.
step_finish(reward) ==
    /\ pc = "step_finish"
    /\ \E out \in {ApplyWrappers(step_wrappers, StepValBuilt(reward))} :
           /\ reward_history' = out.hist.values
           /\ hist_size' = out.hist.size
           /\ ret' = StepReturn(out.heap[out.ref])
    /\ orig_action' = <<>>
    /\ info' = NoInfo
    /\ harness_ticks' = 0
    /\ pc' = "idle"
    /\ UNCHANGED <<channelVars, prev_reset, procVars, time_control, instance, state, harness, handles,
                   init_tick, polls, tick, countVars, inputVars, resetVars>>

Infos == [tick : Ticks, is_alive : BOOLEAN, y : Ys]

Next ==
    \/ \E n \in 1 .. MaxEnvs : pre_init(n)
    \/ process_exit
    \/ \E inst \in SessionInstances, skip \in BOOLEAN : __init__(inst, skip)
    \/ reset
    \/ _reset_env
    \/ _try_reset_env
    \/ cleanup_harness
    \/ launch_harness
    \/ \E ready \in BOOLEAN, dt \in PollSecs : _wait_for_harness_init(ready, dt)
    \/ init_timed_out
    \/ \E t \in Ticks : _env_init(t)
    \/ close
    \/ \E a \in Actions : step(a)
    \/ step_run
    \/ step_pause
    \/ \E inf \in Infos : step_poll(inf)
    \/ \E r \in Rewards : step_finish(r)

Spec == Init /\ [][Next]_vars

(***************************************************************************)
(* The action decoding of step() over every discrete action vector of the  *)
(* action space: a session that starts at once and whose game ticks at     *)
(* every poll takes any action as its first step and one of Actions after. *)
(***************************************************************************)
Indices(k) == 0 .. (Len(_input_space[k]) - 1)

AllDiscrete ==
    {<<d1, d2, d3, d4, d5, d6, d7>> :
        d1 \in Indices(1), d2 \in Indices(2), d3 \in Indices(3),
        d4 \in Indices(4), d5 \in Indices(5), d6 \in Indices(6),
        d7 \in Indices(7)}

AllActions ==
    Actions \cup {<<d, c>> : d \in AllDiscrete, c \in {<<-1, -1>>, <<1, 1>>}}

NextActions ==
    \/ \E inst \in SessionInstances : __init__(inst, TRUE)
    \/ _reset_env
    \/ _try_reset_env
    \/ launch_harness
    \/ _wait_for_harness_init(TRUE, TickSecs)
    \/ \E t \in Ticks : _env_init(t)
    \/ \E a \in (IF env_step = 0 THEN AllActions ELSE Actions) : step(a)
    \/ step_run
    \/ step_pause
    \/ \E t \in Ticks \ {init_tick} :
          step_poll([tick |-> t, is_alive |-> TRUE, y |-> 0])
    \/ step_finish(1)

SpecActions == Init /\ [][NextActions]_vars

(***************************************************************************)
(* The time-control channel on its own: SetSpeedup calls for any instance, *)
(* each taken in its two steps (the open that truncates, the write that    *)
(* is flushed at close), and the controlled process of each instance       *)
(* polling its artifact at any moment.  In Spec the calls are taken as one *)
(* step, since nothing there reads an artifact.                            *)
(***************************************************************************)
sessionVars == <<prev_reset, pc, instance, state, harness, handles, tick, ret, countVars,
                 inputVars, stepVars, policyVars, resetVars>>

\* with open(path, "wb") as f: the artifact is opened for writing.
SetSpeedup_open(speedup, inst) ==
    /\ writing[inst] = <<>>
    /\ writing' = [writing EXCEPT ![inst] = <<speedup, time_control[inst]>>]
    /\ time_control' =
           [time_control EXCEPT ![inst] = time_control_open(@)]
    /\ UNCHANGED <<procVars, observed, sessionVars>>

\* f.write(struct.pack("f", speedup)), flushed when the with block closes f.
SetSpeedup_write(inst) ==
    /\ writing[inst] # <<>>
    /\ time_control' =
           [time_control EXCEPT
               ![inst] = time_control_write(@, writing[inst][1])]
    /\ writing' = [writing EXCEPT ![inst] = <<>>]
    /\ UNCHANGED <<procVars, observed, sessionVars>>

\* The artifact exists once a call has opened it.
ArtifactExists(inst) == time_control[inst] # <<>> \/ writing[inst] # <<>>

\* The controlled process of the instance reads its artifact.
poll_time_control(inst) ==
    /\ ArtifactExists(inst)
    /\ observed' = [observed EXCEPT ![inst] = <<time_control[inst]>>]
    /\ UNCHANGED <<procVars, time_control, writing, sessionVars>>

NextTime ==
    \/ \E m \in Speedups, i \in Instances : SetSpeedup_open(m, i)
    \/ \E i \in Instances : SetSpeedup_write(i)
    \/ \E i \in Instances : poll_time_control(i)

SpecTime == Init /\ [][NextTime]_vars

(***************************************************************************)
(* Termination: one session with a fixed action and a fixed reward, whose  *)
(* control thread keeps running (each sleep, tick(), on_tick() and         *)
(* Harness() it calls returns), whatever the controlled process does.      *)
(***************************************************************************)
NextLive ==
    \/ \E inst \in SessionInstances, skip \in BOOLEAN : __init__(inst, skip)
    \/ reset
    \/ _reset_env
    \/ _try_reset_env
    \/ cleanup_harness
    \/ launch_harness
    \/ \E ready \in BOOLEAN, dt \in PollSecs : _wait_for_harness_init(ready, dt)
    \/ init_timed_out
    \/ \E t \in Ticks : _env_init(t)
    \/ close
    \/ step(<< <<0, 0, 0, 0, 0, 0, 0>>, <<-1, -1>> >>)
    \/ step_run
    \/ step_pause
    \/ \E t \in Ticks : step_poll([tick |-> t, is_alive |-> TRUE, y |-> 0])
    \/ step_finish(0)

\* The steps of the control thread inside a reset or a step().
SessionRuns ==
    \/ _reset_env
    \/ _try_reset_env
    \/ cleanup_harness
    \/ launch_harness
    \/ \E ready \in BOOLEAN, dt \in PollSecs : _wait_for_harness_init(ready, dt)
    \/ init_timed_out
    \/ \E t \in Ticks : _env_init(t)
    \/ step_run
    \/ step_pause
    \/ \E t \in Ticks : step_poll([tick |-> t, is_alive |-> TRUE, y |-> 0])
    \/ step_finish(0)

SpecLive == Init /\ [][NextLive]_vars /\ WF_vars(SessionRuns)

(***************************************************************************)
(* Properties.                                                             *)
(***************************************************************************)
ResetPcs ==
    {"_try_reset_env", "cleanup_harness", "launch_harness",
     "_wait_for_harness_init", "_env_init", "init_timed_out"}

\* C1: a reset makes at most ResetAttempts (3) attempts; a successful attempt
\* returns at once, with no further attempt; a failed attempt is followed by
\* another one unless it was the third, and the reset raises ResetExhausted
\* exactly when the third attempt in a row has failed.
C1_ResetAttempts ==
    [][ /\ (pc \in ResetPcs => tries < ResetAttempts)
        /\ (pc = "_env_init" =>
               pc' = "idle" /\ ret'.kind = "reset_ok" /\ ep_num' = ep_num)
        /\ (pc = "init_timed_out" =>
               IF tries = ResetAttempts - 1
               THEN ret'.kind = "ResetExhausted" /\ pc' \in {"idle", "failed"}
               ELSE /\ pc' = "_try_reset_env"
                    /\ tries' = tries + 1
                    /\ ret'.kind # "ResetExhausted")
        /\ (ret'.kind = "ResetExhausted" /\ ret.kind # "ResetExhausted" =>
               pc = "init_timed_out" /\ tries = ResetAttempts - 1)
      ]_vars

\* A reset() of a constructed session has raised after three failed attempts.
C1_Witness ==
    pc = "idle" /\ ret.kind = "ResetExhausted" /\ ep_num >= ResetAttempts + 1

\* C2: whenever a reset (construction or reset()) has returned normally,
\* ep_step is 0 and the state is RUNNING.
C2_ResetReturns ==
    ret.kind = "reset_ok" => pc = "idle" /\ ep_step = 0 /\ state = "RUNNING"

\* A reset() has returned after steps and after failed attempts.
C2_Witness ==
    ret.kind = "reset_ok" /\ env_step >= 2 /\ ep_num >= ResetAttempts

\* C3: step() polls at most Retries (20) times; the first poll that sees a
\* tick other than the initial one ends the polling and a result is
\* returned; when the 20th poll still sees the initial tick, step() returns
\* the "unavailable" sentinel and touches neither the harness, the state nor
\* the episode; the sentinel is returned in no other case.
C3_StepPolling ==
    [][ /\ (pc = "step_poll" => polls < Retries)
        /\ (pc = "step_poll" /\ tick' # init_tick => pc' = "step_finish")
        /\ (pc = "step_finish" => pc' = "idle" /\ ret'.kind = "result")
        /\ (pc = "step_poll" /\ tick' = init_tick =>
               IF polls = Retries - 1
               THEN /\ pc' = "idle"
                    /\ ret'.kind = "unavailable"
                    /\ UNCHANGED <<harness, handles, state, countVars,
                                   policyVars, inputVars>>
               ELSE pc' = "step_run" /\ polls' = polls + 1)
        /\ (ret'.kind = "unavailable" /\ ret.kind # "unavailable" =>
               pc = "step_poll" /\ polls = Retries - 1 /\ tick' = init_tick)
      ]_vars

\* A step has stalled and returned the sentinel.
C3_Witness == pc = "idle" /\ ret.kind = "unavailable" /\ harness

\* C4: the reward and done flag a successful step returns are those of the
\* snapshot (reward of the reward function, terminated = not is_alive,
\* truncated = false) passed through TerminateOnOverworld and then
\* TerminateOnSparseReward; done is terminated or truncated, and truncated
\* is false.
C4_PolicyChain ==
    [][ pc = "step_finish" =>
          LET r == reward_history'[Len(reward_history')]
              s0 == [reward |-> r, terminated |-> ~info.is_alive,
                     truncated |-> FALSE, info |-> info, ep_step |-> ep_step]
              s1 == TerminateOnOverworld(s0)
              s2 == TerminateOnSparseReward(History, s1).step
          IN  /\ ret'.kind = "result"
              /\ ret'.reward = s2.reward
              /\ ret'.done = (s2.terminated \/ s2.truncated)
              /\ ret'.truncated = FALSE
              /\ ret'.info = info
      ]_vars

\* A step of a live player outside the overworld was ended by the chain.
C4_Witness ==
    /\ pc = "idle"
    /\ ret.kind = "result"
    /\ ret.done
    /\ ret.info.is_alive
    /\ ~is_overworld(ret.info)

\* The table entries of the dimensions whose index is not zero.
NonZeroEntries(d) ==
    {_input_space[k][d[k] + 1] : k \in {j \in 1 .. 7 : d[j] # 0}}

\* C5: while a step is under way, the held keys and the held buttons of the
\* input channel are exactly the table entries of the dimensions with a
\* non-zero index (keys and buttons apart), whatever was held before; for
\* the all-zeros vector both sets are empty.
C5_HeldInputs ==
    orig_action # <<>> =>
        LET d == SplitAction(orig_action)[1]
        IN  /\ held_keys = NonZeroEntries(d) \ MouseButtons
            /\ held_buttons = NonZeroEntries(d) \cap MouseButtons
            /\ ((\A k \in 1 .. 7 : d[k] = 0) =>
                   held_keys = {} /\ held_buttons = {})

\* The all-zeros vector is applied in a second step.
C5_Witness ==
    /\ pc = "step_run"
    /\ env_step = 2
    /\ SplitAction(orig_action)[1] = <<0, 0, 0, 0, 0, 0, 0>>
    /\ held_keys = {}
    /\ held_buttons = {}

\* C6 as stated: the cursor goes to (0, 0) for the continuous action
\* (-1, -1) and to (x_res, y_res) for (1, 1).
C6_Original ==
    orig_action # <<>> =>
        LET c == SplitAction(orig_action)[2]
        IN  /\ (c = <<-1, -1>> => mouse_pos = <<0, 0>>)
            /\ (c = <<1, 1>> => mouse_pos = <<XRes, YRes>>)

\* C6, amended: the cursor goes to ((s * c + 1) / 2) * resolution per axis,
\* s being scale_mouse_coords; with the default s = 3 that is
\* (-x_res, -y_res) for (-1, -1) and (2 * x_res, 2 * y_res) for (1, 1).
C6_MouseScaled ==
    orig_action # <<>> =>
        LET c == SplitAction(orig_action)[2]
        IN  /\ 2 * mouse_pos[1] = (ScaleMouseCoords * c[1] + 1) * XRes
            /\ 2 * mouse_pos[2] = (ScaleMouseCoords * c[2] + 1) * YRes
            /\ (c = <<-1, -1>> => mouse_pos = <<-XRes, -YRes>>)
            /\ (c = <<1, 1>> => mouse_pos = <<2 * XRes, 2 * YRes>>)

\* The action (-1, -1) has put the cursor at (-x_res, -y_res).
C6_Witness ==
    /\ pc = "step_run"
    /\ SplitAction(orig_action)[2] = <<-1, -1>>
    /\ mouse_pos = <<-XRes, -YRes>>

\* C7: env_step never decreases, and it changes only in the first part of
\* step(), by one.
C7_EnvStepMonotonic ==
    [][ /\ env_step' >= env_step
        /\ (env_step' # env_step =>
               /\ pc = "idle"
               /\ env_step' = env_step + 1
               /\ \E a \in Actions : step(a))
      ]_vars

\* env_step has survived a reset() that exhausted its attempts.
C7_Witness ==
    pc = "idle" /\ ret.kind = "ResetExhausted" /\ env_step >= 2 /\ ep_step = 0

\* The window holds no non-zero reward.
WindowEmpty(h) == CountNonZero(FifoArray(h)) = 0

HistoryNext == [values |-> reward_history', size |-> hist_size']

\* C8 as stated: in a stream of zero rewards the policy acts once; at a
\* later step of the stream (the window was empty already) it neither
\* empties the window again nor applies the penalty.
C8_Original ==
    [][ /\ pc = "step_finish"
        /\ WindowEmpty(History)
        /\ reward_history'[Len(reward_history')] = 0
        => /\ ~WindowEmpty(HistoryNext)
           /\ ret'.reward # 0 - TerminationPenalty
      ]_vars

\* C8, amended: the policy sets terminated and subtracts the penalty (10) at
\* every step whose window holds no non-zero reward, that is at the first
\* such step of a stream of zero rewards and at every later step of the
\* stream; at any other step it leaves reward and terminated as they were.
C8_SparseFires ==
    [][ pc = "step_finish" =>
          LET r == reward_history'[Len(reward_history')]
              fired == WindowEmpty(HistoryNext)
          IN  /\ (fired =>
                    ret'.terminated /\ ret'.reward = r - TerminationPenalty)
              /\ (~fired =>
                    /\ ret'.reward = r
                    /\ ret'.terminated
                         = (~info.is_alive \/ is_overworld(info)))
              /\ (WindowEmpty(History) /\ r = 0 => fired)
      ]_vars

\* The policy has acted at two steps of one episode.
C8_Witness ==
    /\ pc = "idle"
    /\ ret.kind = "result"
    /\ WindowEmpty(History)
    /\ ret.reward = 0 - TerminationPenalty
    /\ ep_step >= HistLen0 + 1
    /\ hist_size = HistLen1

\* C9 as stated: TerminateOnOverworld sets terminated exactly when y < -80
\* (seen at the steps at which TerminateOnSparseReward does not act).
C9_Original ==
    pc = "idle" /\ ret.kind = "result" /\ ~WindowEmpty(History) =>
        ret.terminated
          = (~ret.info.is_alive \/ ret.info.y < OverworldY * YDen)

\* C9, amended: TerminateOnOverworld sets terminated exactly when
\* int(y) < -80, int() truncating toward zero, that is when y <= -81; it
\* leaves the reward alone; y = -81 forces terminated, and y = -79, y = -80
\* and any y in between -81 and -80 leave it as it was.
C9_Overworld ==
    pc = "idle" /\ ret.kind = "result" /\ ~WindowEmpty(History) =>
        /\ ret.terminated
             = (~ret.info.is_alive \/ ret.info.y <= (OverworldY - 1) * YDen)
        /\ ret.reward = reward_history[Len(reward_history)]
        /\ (ret.info.y = -81 * YDen => ret.terminated)
        /\ (ret.info.y \in {-79 * YDen, OverworldY * YDen} =>
               ret.terminated = ~ret.info.is_alive)

\* A live player at a y strictly between -81 and -80 is not terminated.
C9_Witness ==
    /\ pc = "idle"
    /\ ret.kind = "result"
    /\ ret.info.is_alive
    /\ ret.info.y = -81 * YDen + 1
    /\ ~ret.terminated

\* C10: once pre_init has completed (the flag is set, and stays set), every
\* later pre_init call raises AlreadyInitialized and changes neither the
\* cursors, nor a time-control artifact, nor the registered finalizers.
C10_PreInitOnce ==
    [][ /\ (singleton_init => singleton_init')
        /\ (singleton_init /\ (\E n \in 1 .. MaxEnvs : pre_init(n)) =>
               /\ ret'.kind = "AlreadyInitialized"
               /\ UNCHANGED <<cursors, finalizers, time_control>>)
      ]_vars

\* A second pre_init call has been refused while a session runs.
C10_Witness ==
    /\ ret.kind = "AlreadyInitialized"
    /\ singleton_init
    /\ Len(finalizers) = 1
    /\ harness

\* The pointers named for the instance ids below n, one each.
OnePointerEach(n) ==
    [nm \in CursorNames |-> IF \E i \in 0 .. (n - 1) : cursor_name(i) = nm
                             THEN 1 ELSE 0]

\* C11: a pre_init(N) that is not refused creates exactly N virtual pointers,
\* one under the name of each instance id 0..N-1 and no two under one name,
\* and registers one finalizer; at process exit the finalizers delete each
\* of those N pointers once and nothing else, so no pointer is left.
C11_PointersCreatedAndRemoved ==
    [][ /\ \A n \in 1 .. MaxEnvs :
              ~singleton_init /\ pre_init(n) =>
                  /\ cursors' = OnePointerEach(n)
                  /\ \A i, j \in 0 .. (n - 1) :
                        i # j => cursor_name(i) # cursor_name(j)
                  /\ finalizers' = <<n>>
        /\ (process_exit =>
               /\ \A nm \in CursorNames :
                     cursors[nm] - cursors'[nm]
                       = (IF finalizers = <<>> THEN 0
                          ELSE OnePointerEach(finalizers[1])[nm])
               /\ \A nm \in CursorNames : cursors'[nm] = 0)
        /\ (cursors' # cursors =>
               (\E n \in 1 .. MaxEnvs : pre_init(n)) \/ process_exit)
      ]_vars

\* The process has exited after pre_init(MaxEnvs): its pointers are gone.
C11_Witness ==
    /\ exited
    /\ finalizers = <<MaxEnvs>>
    /\ \A nm \in CursorNames : cursors[nm] = 0

\* The single-precision encodings of 1.0, 4.0 and 0.02, least significant
\* byte first (3F800000, 40800000 and 3CA3D70A in hexadecimal).
Float32LE(m) ==
    IF m = 100 THEN <<0, 0, 128, 63>>
    ELSE IF m = 400 THEN <<0, 0, 128, 64>>
    ELSE <<10, 215, 163, 60>>

C13_AtomicOverwrite ==
    [][ \A i \in Instances :
          poll_time_control(i) /\ writing[i] # <<>> /\ writing[i][2] # <<>> =>
              observed'[i][1] \in {writing[i][2], pack_f(writing[i][1])}
      ]_vars

\* C15 as stated: each policy returns a StepVal that is not the one it was
\* given, and the one it was given has the fields it had before the call.
C15_Original ==
    [][ pc = "step_finish" =>
          LET hs0 == StepValBuilt(reward_history'[Len(reward_history')])
              hs1 == ApplyWrapper(step_wrappers[1], hs0)
              hs2 == ApplyWrapper(step_wrappers[2], hs1)
          IN  /\ hs1.ref # hs0.ref
              /\ hs1.heap[hs0.ref] = hs0.heap[hs0.ref]
              /\ hs2.ref # hs1.ref
              /\ hs2.heap[hs1.ref] = hs1.heap[hs1.ref]
      ]_vars

\* C15, amended: each policy assigns to the StepVal it is given and returns
\* that same object: no second StepVal comes to exist in the chain, after
\* each call the object passed in holds the policy's result (so a policy
\* that acts changes its argument's terminated and reward), and step()
\* returns the fields of the object it built.
C15_InPlace ==
    [][ pc = "step_finish" =>
          LET hs0 == StepValBuilt(reward_history'[Len(reward_history')])
              hs1 == ApplyWrapper(step_wrappers[1], hs0)
              hs2 == ApplyWrapper(step_wrappers[2], hs1)
          IN  /\ hs1.ref = hs0.ref
              /\ hs2.ref = hs1.ref
              /\ Len(hs2.heap) = 1
              /\ hs1.heap[hs0.ref] = TerminateOnOverworld(hs0.heap[hs0.ref])
              /\ hs2.heap[hs1.ref]
                   = TerminateOnSparseReward(hs1.hist, hs1.heap[hs1.ref]).step
              /\ ret' = StepReturn(hs2.heap[hs0.ref])
      ]_vars

\* TerminateOnOverworld has set terminated on the StepVal of a live player.
C15_Witness ==
    /\ pc = "idle"
    /\ ret.kind = "result"
    /\ ret.info.is_alive
    /\ is_overworld(ret.info)
    /\ ret.terminated
    /\ ~WindowEmpty(History)

\* C16: each of the two policies only strengthens termination and only
\* reduces the reward: if the StepVal it is called with is terminated, so is
\* the one it returns, and the reward it returns is at most the reward it
\* was given; so a step whose info has is_alive = false returns done = true.
C16_PoliciesOnlyStrengthen ==
    [][ pc = "step_finish" =>
          LET hs0 == StepValBuilt(reward_history'[Len(reward_history')])
              hs1 == ApplyWrapper(step_wrappers[1], hs0)
              hs2 == ApplyWrapper(step_wrappers[2], hs1)
              s0 == hs0.heap[hs0.ref]
              s1 == hs1.heap[hs1.ref]
              s2 == hs2.heap[hs2.ref]
          IN  /\ (s0.terminated => s1.terminated)
              /\ s1.reward <= s0.reward
              /\ (s1.terminated => s2.terminated)
              /\ s2.reward <= s1.reward
              /\ ret'.reward <= s0.reward
              /\ (~info.is_alive => s0.terminated /\ ret'.done)
      ]_vars

\* A dead player outside the overworld, with a reward in the window: the
\* step is done although neither policy acted.
C16_Witness ==
    /\ pc = "idle"
    /\ ret.kind = "result"
    /\ ~ret.info.is_alive
    /\ ~is_overworld(ret.info)
    /\ ~WindowEmpty(History)
    /\ ret.done
    /\ ret.reward = 1

\* The part of an attempt that follows the clean-up of the previous harness.
AttemptPcs ==
    {"launch_harness", "_wait_for_harness_init", "_env_init", "init_timed_out"}

\* C17 as stated: during an attempt and after a failed attempt the state of
\* a session that has one is UNKNOWN.
C17_Original ==
    /\ (pc \in AttemptPcs /\ state # "unset" => state = "UNKNOWN")
    /\ (ret.kind = "ResetExhausted" => state = "UNKNOWN")

\* C17, amended: the state is set to UNKNOWN when an attempt launches its
\* process handle, not when the attempt begins (while the attempt releases
\* the keys and cleans up the previous harness the state is what it was,
\* RUNNING in a reset of a running session); from the launch to the end of
\* the attempt, and after a failed attempt or an exhausted reset, it is
\* UNKNOWN; it becomes RUNNING only at the end of an attempt whose wait saw
\* the harness ready; it is never GAME_OVER, and step() never changes it.
C17_StateTransitions ==
    [][ /\ state' \in {"unset", "UNKNOWN", "RUNNING"}
        /\ (pc \in {"_try_reset_env", "cleanup_harness"} => state' = state)
        /\ (pc = "launch_harness" => state' = "UNKNOWN")
        /\ (pc' \in AttemptPcs \ {"launch_harness"} => state' = "UNKNOWN")
        /\ (pc = "init_timed_out" => state' = "UNKNOWN")
        /\ (pc' = "_try_reset_env" /\ tries' > 0 => state' = "UNKNOWN")
        /\ (ret'.kind = "ResetExhausted" => state' = "UNKNOWN")
        /\ (state' = "RUNNING" /\ state # "RUNNING" => pc = "_env_init")
        /\ (pc' = "_env_init" /\ pc # "_env_init" =>
               \E dt \in PollSecs : _wait_for_harness_init(TRUE, dt))
        /\ (state' # state => pc \in {"launch_harness", "_env_init"})
        /\ (pc \in {"step_run", "step_pause", "step_poll", "step_finish"}
               \/ (\E a \in Actions : step(a)) => state' = state)
      ]_vars

\* A reset() of a running session is about to launch the new harness: the
\* previous one is cleaned up and the state is still RUNNING.
C17_Witness ==
    /\ pc = "launch_harness"
    /\ caller = "reset"
    /\ state = "RUNNING"
    /\ handles = 0
    /\ env_step >= 1

\* C18 as stated: a reset() that returns right after a reset() that
\* returned leaves the session as the first one left it.
C18_Original ==
    [][ pc = "_env_init" /\ caller = "reset" /\ prev_reset # NoSession =>
          Session' = prev_reset
      ]_vars

\* C18, amended: a reset() that returns right after a reset() that returned
\* leaves the session state, ep_step, env_step, the policy state, the held
\* buttons, the cursor and the one live process handle as the first one
\* left them, but not the episode counter: ep_num has grown by the number
\* of attempts the second reset() made, so by at least one.  The second
\* reset() leaves no key held; the first did so too unless it began
\* without a harness (after close()), when it released none.
C18_ResetTwice ==
    [][ pc = "_env_init" /\ caller = "reset" /\ prev_reset # NoSession =>
          /\ [Session' EXCEPT !.ep_num = 0, !.held_keys = {}]
               = [prev_reset EXCEPT !.ep_num = 0, !.held_keys = {}]
          /\ ep_num' = prev_reset.ep_num + tries + 1
          /\ held_keys' = {}
          /\ Session'.handles = 1
          /\ Session'.state = "RUNNING"
      ]_vars

\* A second reset() in a row is about to return from its second attempt; a
\* mouse button has been held since before the first.
C18_Witness ==
    /\ pc = "_env_init"
    /\ caller = "reset"
    /\ prev_reset # NoSession
    /\ prev_reset.held_buttons # {}
    /\ tries = 1

InReset == pc \in {"_reset_env"} \cup ResetPcs

InStep == pc \in {"step_run", "step_pause", "step_poll", "step_finish"}

\* C19: whatever the controlled process does (never ready, tick never
\* advancing), every reset that has begun comes to an end, returning or
\* raising, within ResetAttempts (3) attempts, the wait of an attempt not
\* going on once the watchdog (45 s) has expired; and every step() that has
\* begun returns, within Retries (20) polls.
C19_Terminates ==
    /\ [](InReset => tries < ResetAttempts)
    /\ [](pc = "_wait_for_harness_init" => elapsed <= WatchdogSecs)
    /\ [](InStep => polls < Retries)
    /\ (InReset ~> pc \in {"idle", "failed"})
    /\ (InStep ~> pc = "idle")

\* The wait of a third attempt has run into the watchdog.
C19_Witness ==
    /\ pc = "init_timed_out"
    /\ tries = ResetAttempts - 1
    /\ WatchdogExpired(elapsed)
    /\ caller = "reset"

\* C20: every round of the wait that finds the harness not ready calls
\* tick() once (and sleeps at least a second); the wait gives up only once
\* the watchdog has expired; the attempt then cleans up the harness it
\* launched and drops it, leaves the state UNKNOWN and the input channel
\* alone (no menu macro), and hands the failure to the retry loop, which
\* goes on to the next attempt: nothing is raised unless this was the last
\* attempt.
C20_InitTimeout ==
    [][ /\ (pc = "_wait_for_harness_init" =>
               /\ wait_ticks' = (IF pc' = "_env_init" THEN wait_ticks
                                 ELSE wait_ticks + 1)
               /\ wait_ticks' <= elapsed')
        /\ (pc' = "init_timed_out" /\ pc # "init_timed_out" =>
               /\ pc = "_wait_for_harness_init"
               /\ WatchdogExpired(elapsed')
               /\ wait_ticks' >= 1)
        /\ (pc = "init_timed_out" =>
               /\ handles = 1
               /\ handles' = 0
               /\ ~harness'
               /\ state = "UNKNOWN"
               /\ state' = "UNKNOWN"
               /\ UNCHANGED inputVars
               /\ IF tries < ResetAttempts - 1
                  THEN pc' = "_try_reset_env" /\ ret' = ret
                  ELSE ret'.kind = "ResetExhausted")
      ]_vars

\* A failed attempt has handed its failure to the loop of a reset(), which
\* is about to try again.
C20_Witness ==
    /\ pc = "_try_reset_env"
    /\ tries = 1
    /\ caller = "reset"
    /\ ~harness
    /\ handles = 0
    /\ state = "UNKNOWN"

\* C21 as stated: every attempt clears the held input, so that the held
\* keys and the held buttons are both empty, before it tears down an
\* existing process handle, and tears that handle down before it launches
\* the new one.
C21_ClearTeardownLaunch ==
    [][ /\ (pc = "cleanup_harness" =>
               /\ held_keys = {}
               /\ held_buttons = {}
               /\ handles' = handles - 1)
        /\ (pc = "launch_harness" =>
               /\ held_keys = {}
               /\ held_buttons = {}
               /\ handles = 0
               /\ handles' = 1)
      ]_vars

\* C22: a step() applies the held keys, the held buttons and the cursor
\* position and calls tick() once before it first writes run_rate; from
\* there every round of the loop writes run_rate, then writes pause_rate,
\* and only then polls the info source, tick() not being called again; so
\* the info source is never polled while the artifact holds run_rate.
C22_StepOrder ==
    [][ /\ ((\E a \in Actions : step(a)) /\ harness =>
               /\ harness_ticks' = 1
               /\ pc' = "step_run"
               /\ polls' = 0
               /\ time_control' = time_control)
        /\ (pc = "step_run" =>
               /\ harness_ticks = 1
               /\ held_keys = HeldKeys(SplitAction(orig_action)[1])
               /\ held_buttons = HeldMouseButtons(SplitAction(orig_action)[1])
               /\ mouse_pos = MousePos(SplitAction(orig_action)[2])
               /\ time_control'[instance] = Float32LE(RunRate)
               /\ pc' = "step_pause"
               /\ UNCHANGED <<tick, info, inputVars, harness_ticks>>)
        /\ (pc = "step_pause" =>
               /\ time_control[instance] = Float32LE(RunRate)
               /\ time_control'[instance] = Float32LE(PauseRate)
               /\ pc' = "step_poll"
               /\ UNCHANGED <<tick, info, inputVars, harness_ticks>>)
        /\ (pc = "step_poll" =>
               /\ time_control[instance] = Float32LE(PauseRate)
               /\ harness_ticks = 1
               /\ pc' \in {"step_run", "step_finish", "idle"}
               /\ UNCHANGED <<time_control, inputVars>>)
        /\ (tick' # tick \/ (\E inf \in Infos : step_poll(inf)) =>
               time_control[instance] # Float32LE(RunRate))
      ]_vars

\* The second round of a step that holds a mouse button is about to poll.
C22_Witness ==
    /\ pc = "step_poll"
    /\ polls = 1
    /\ harness_ticks = 1
    /\ held_buttons # {}
    /\ time_control[instance] = Float32LE(PauseRate)

\* C23: every attempt of a reset calls reset() on the policies of the chain
\* before any step of the new episode: it leaves the reward history of
\* TerminateOnSparseReward holding the seed entry alone, in a window of one;
\* the history changes otherwise only when a step applies the chain, which
\* pushes that step's reward; so the history an apply() finds holds, besides
\* the seed entry, rewards of the episode under way only (fewer entries than
\* the episode has steps), and nothing of an earlier episode.
C23_PoliciesResetPerEpisode ==
    [][ /\ (pc = "_try_reset_env" =>
               reward_history' = <<1>> /\ hist_size' = 1)
        /\ (<<reward_history', hist_size'>> # <<reward_history, hist_size>> =>
               pc \in {"new", "_try_reset_env", "step_finish"})
        /\ (pc = "step_finish" =>
               /\ Len(reward_history) <= ep_step
               /\ (ep_step = 1 => reward_history = <<1>> /\ hist_size = 1)
               /\ (Len(reward_history) < MaxSize =>
                      /\ reward_history[1] = 1
                      /\ reward_history'
                           = Append(reward_history,
                                    reward_history'[Len(reward_history')])))
      ]_vars

\* The chain is about to be applied at the first step of an episode that
\* follows an episode of two steps.
C23_Witness ==
    /\ pc = "step_finish"
    /\ ep_step = 1
    /\ env_step = MaxEnvStep
    /\ ep_num >= 2
    /\ reward_history = <<1>>

\* The most recent n entries of s, all of them if it has fewer.
Recent(s, n) ==
    IF n >= Len(s) THEN s ELSE SubSeq(s, Len(s) - n + 1, Len(s))

\* C24: TerminateOnSparseReward changes the StepVal it is called with if and
\* only if the window, the most recent W entries of the history after the
\* push of the step's reward (W the history length for the step's ep_step,
\* the seed entry of reset() counting as an entry), holds no non-zero entry;
\* it then subtracts the penalty and sets terminated.  So it does not act
\* while the seed entry is inside the window, nor when a non-zero reward,
\* positive or negative, is.
C24_SparseWindow ==
    [][ pc = "step_finish" =>
          LET r == reward_history'[Len(reward_history')]
              W == history_len(ep_step)
              window == Recent(reward_history', W)
              quiet == \A k \in 1 .. Len(window) : window[k] = 0
              s1 == TerminateOnOverworld(RawStepVal(r, info, ep_step))
              changed == \/ ret'.reward # s1.reward
                         \/ ret'.terminated # s1.terminated
          IN  /\ changed <=> quiet
              /\ (quiet =>
                     /\ ret'.reward = s1.reward - TerminationPenalty
                     /\ ret'.terminated)
              /\ hist_size' = Len(window)
              /\ (ep_step < MaxSize /\ W >= Len(reward_history') =>
                     /\ reward_history'[1] = 1
                     /\ ~changed)
              /\ ((\E k \in 1 .. Len(window) : window[k] < 0) => ~changed)
              /\ ((\E k \in 1 .. Len(window) : window[k] > 0) => ~changed)
      ]_vars

\* A step of reward 0 was left alone: the seed entry has left the history
\* and the one non-zero reward of the window is a negative one.
C24_Witness ==
    /\ pc = "idle"
    /\ ret.kind = "result"
    /\ reward_history = <<-1, 0, 0>>
    /\ hist_size = HistLen1
    /\ ret.reward = 0
    /\ ~ret.terminated

\* C25: the session has at most one live process handle (launched and not
\* cleaned up) in every reachable state, and the handle it has is the one
\* self.harness names; it has none after a failed attempt (when the next
\* attempt begins) and none after a reset has exhausted its attempts; a new
\* handle is launched only when none is live.
C25_OneHandle ==
    /\ handles \in {0, 1}
    /\ (handles = 1 => harness)
    /\ (pc = "_try_reset_env" /\ tries > 0 => handles = 0 /\ ~harness)
    /\ (ret.kind = "ResetExhausted" => handles = 0 /\ ~harness)
    /\ (pc = "launch_harness" => handles = 0)

\* The second attempt of a reset() of a session that has stepped waits for
\* its harness: the handle of the session and the handle of the failed
\* attempt are gone, the one live handle is the third launched.
C25_Witness ==
    /\ pc = "_wait_for_harness_init"
    /\ caller = "reset"
    /\ tries = 1
    /\ env_step >= 1
    /\ handles = 1

\* C26: whenever step() has returned, a result or the "unavailable"
\* sentinel, the session's artifact holds pause_rate; every reset begins by
\* writing the multiplier 1, and the artifact holds 1 throughout the reset
\* and from there until the first step() of the episode, not pause_rate.
C26_LastSpeedup ==
    [][ /\ (pc = "_reset_env" =>
               time_control'[instance] = Float32LE(100))
        /\ (pc' = "idle" /\ ret'.kind \in {"result", "unavailable"} =>
               time_control'[instance'] = Float32LE(PauseRate))
        /\ (pc' \in ResetPcs \/ (ep_step' = 0 /\ pc' \notin {"new", "_reset_env"})
               => time_control'[instance'] = Float32LE(100))
      ]_vars

\* A reset() of a session that has stepped has returned: the artifact holds
\* 1 where the last step left pause_rate.
C26_Witness ==
    /\ pc = "idle"
    /\ ret.kind = "reset_ok"
    /\ env_step >= 1
    /\ ep_step = 0
    /\ time_control[instance] = <<0, 0, 128, 63>>

\* C27: a step() that stalls (returns the "unavailable" sentinel) has added
\* exactly one to ep_step and one to env_step, at its start, and has left
\* the rest of the session as it was: it returns from its loop, after the
\* last of its Retries polls, without the reward function being updated or
\* a policy applied, so the reward history, the session state, ep_num and
\* the process handle are untouched.  So ep_step <= env_step in every
\* state, and both count the stalled steps.
C27_StalledStep ==
    [][ /\ ((\E a \in Actions : step(a)) =>
               /\ ep_step' = ep_step + 1
               /\ env_step' = env_step + 1
               /\ UNCHANGED <<policyVars, state, ep_num, harness, handles>>)
        /\ (pc \in {"step_run", "step_pause", "step_poll"} =>
               UNCHANGED <<countVars, policyVars, state, harness, handles>>)
        /\ (ret'.kind = "unavailable" /\ ret.kind # "unavailable" =>
               /\ pc = "step_poll"
               /\ polls = Retries - 1
               /\ pc' = "idle"
               /\ ep_step' >= 1)
        /\ ep_step' <= env_step'
      ]_vars

\* Two steps in a row have stalled: both counters stand at 2 and the reward
\* history is as the reset left it.
C27_Witness ==
    /\ pc = "idle"
    /\ ret.kind = "unavailable"
    /\ ep_step = 2
    /\ env_step = 2
    /\ reward_history = <<1>>
    /\ hist_size = 1
    /\ state = "RUNNING"
    /\ handles = 1

\* The attempt under way, if there is one, has counted itself in ep_num.
AttemptUnderWay == IF pc \in ResetPcs \ {"_try_reset_env"} THEN 1 ELSE 0

\* C28: ep_num is advanced by one at the start of every attempt and by
\* nothing else, so that it equals the number of attempts made since the
\* construction set it to 0 (those that have returned and the one under
\* way); a reset that succeeds at its k-th attempt (k in 1..3) has advanced
\* it by k, and a reset that exhausts its attempts by ResetAttempts (3).
C28_EpNumPerAttempt ==
    [][ /\ ep_num' = attempts' + AttemptUnderWay'
        /\ (pc = "_try_reset_env" => ep_num' = ep_num + 1)
        /\ (ep_num' # ep_num => pc \in {"new", "_try_reset_env"})
        /\ (pc = "_env_init" =>
               /\ tries + 1 \in 1 .. ResetAttempts
               /\ ep_num' = reset_ep_num + tries + 1
               /\ ret'.kind = "reset_ok")
        /\ (ret'.kind = "ResetExhausted" /\ pc = "init_timed_out" =>
               ep_num' = reset_ep_num + ResetAttempts)
      ]_vars

\* A reset() that found ep_num at 2 is about to return from its third
\* attempt, with ep_num at 5.
C28_Witness ==
    /\ pc = "_env_init"
    /\ caller = "reset"
    /\ tries = ResetAttempts - 1
    /\ reset_ep_num = 2
    /\ ep_num = 5
    /\ attempts = 4

====
